---- MODULE Spec2Model ----
(***************************************************************************)
(* A model of email-manager's credential handling (src/src/auth.go):       *)
(*   - the token file and its JSON codec (tokenFromFile, saveToken),       *)
(*   - getClient, one invocation of the command-line tool after another,   *)
(*   - getTokenFromWeb with its listener goroutine, its callback handler   *)
(*     goroutines, the two unbuffered channels and the select.             *)
(***************************************************************************)
EXTENDS Naturals, Sequences, FiniteSets

(***************************************************************************)
(* Bounds of the model.                                                    *)
(***************************************************************************)
\* command invocations (processes run one after another)
MaxInvocations == 2
\* callback requests the loopback listener accepts in one invocation
MaxCallbacks == 2
\* saveToken calls of the token-store harness
MaxSaves == 2
\* reads of the token file by another process
MaxReads == 1

(***************************************************************************)
(* Tokens.  oauth2.Token as the program persists it: access value, token   *)
(* type, refresh value, expiry instant.  The expiry is an instant (0 is    *)
(* Go's zero time.Time), the other fields are strings.                     *)
(***************************************************************************)
AccessVals == {"a1", "a2"}
TypeVals == {"", "Bearer"}
RefreshVals == {"", "r1"}
ExpiryVals == {0, 1}

Tokens == [access : AccessVals, type : TypeVals, refresh : RefreshVals, expiry : ExpiryVals]

\* &oauth2.Token{} : the value tokenFromFile decodes into
ZeroToken == [access |-> "", type |-> "", refresh |-> "", expiry |-> 0]

\* the tokens the provider's token endpoint hands out in the flow model
ExchangeTokens == {[access |-> "a1", type |-> "Bearer", refresh |-> "r1", expiry |-> 1],
                   [access |-> "a2", type |-> "", refresh |-> "", expiry |-> 0]}

\* "no token": the value of a token-valued variable that holds none
NoToken == [access |-> "-", type |-> "-", refresh |-> "-", expiry |-> 0]

(***************************************************************************)
(* The JSON codec.  A file is a sequence of lexemes [k, v]: "{" opens the  *)
(* object, one lexeme per member, "}" closes it, "\n" is the newline       *)
(* json.Encoder appends.  time.Time is written as an RFC 3339 string.      *)
(***************************************************************************)
Lex(k, v) == [k |-> k, v |-> v]

FormatTime(e) == IF e = 0 THEN "0001-01-01T00:00:00Z" ELSE "2026-01-01T00:00:00Z"

ParseTime(s) == IF s = "0001-01-01T00:00:00Z" THEN 0 ELSE 1

\* json.Marshal of an oauth2.Token: access_token always, token_type and
\* refresh_token only when non-empty (omitempty), expiry always (a struct)
MarshalToken(t) ==
    <<Lex("{", "")>>
    \o <<Lex("access_token", t.access)>>
    \o (IF t.type # "" THEN <<Lex("token_type", t.type)>> ELSE <<>>)
    \o (IF t.refresh # "" THEN <<Lex("refresh_token", t.refresh)>> ELSE <<>>)
    \o <<Lex("expiry", FormatTime(t.expiry))>>
    \o <<Lex("}", "")>>

\* json.NewEncoder(f).Encode(token): the marshalled value and a newline
EncodeToken(t) == MarshalToken(t) \o <<Lex("\n", "")>>

\* index of the first lexeme closing the object, 0 when there is none
CloseIndex(content) ==
    IF \E j \in 1..Len(content) : content[j].k = "}"
    THEN CHOOSE j \in 1..Len(content) :
             /\ content[j].k = "}"
             /\ \A m \in 1..(j-1) : content[m].k # "}"
    ELSE 0

\* the value of member key among content[2..last-1], the last occurrence
\* winning; dflt when the member is absent (the field keeps its zero value)
Member(content, last, key, dflt) ==
    IF \E j \in 2..(last-1) : content[j].k = key
    THEN LET j == CHOOSE x \in 2..(last-1) :
                      /\ content[x].k = key
                      /\ \A y \in (x+1)..(last-1) : content[y].k # key
         IN content[j].v
    ELSE dflt

\* json.NewDecoder(f).Decode(&oauth2.Token{}): the first JSON value of the
\* stream; what follows it is not read
DecodeToken(content) ==
    IF content = <<>> THEN [err |-> "EOF", tok |-> ZeroToken]
    ELSE IF content[1].k # "{" THEN [err |-> "syntax", tok |-> ZeroToken]
    ELSE IF CloseIndex(content) = 0 THEN [err |-> "unexpected EOF", tok |-> ZeroToken]
    ELSE LET last == CloseIndex(content) IN
         [err |-> "",
          tok |-> [access |-> Member(content, last, "access_token", ""),
                   type |-> Member(content, last, "token_type", ""),
                   refresh |-> Member(content, last, "refresh_token", ""),
                   expiry |-> ParseTime(Member(content, last, "expiry", FormatTime(0)))]]

\* tokenFromFile: os.Open fails when the file is absent, else decode
tokenFromFile(exists, content) ==
    IF ~exists THEN [err |-> "ENOENT", tok |-> ZeroToken] ELSE DecodeToken(content)

\* a write of data at offset 0 of a file holding content
WriteAt0(content, data) == data \o SubSeq(content, Len(data) + 1, Len(content))

(***************************************************************************)
(* State.                                                                  *)
(***************************************************************************)
VARIABLES
    \* the file system: the token file
    fileExists,     \* the token file exists
    file,           \* its content, a sequence of lexemes
    lastSaved,      \* the token of the last saveToken that returned nil, NoToken
                    \* once a later saveToken has opened the file
    \* the running process
    invocations,    \* commands started so far
    pc,             \* where the main goroutine is
    loadResult,     \* "none", "ok", "fail": what tokenFromFile returned to getClient
    srv,            \* the listener goroutine
    listening,      \* port 8080 is bound and accepts connections
    shutdownCalled, \* server.Shutdown was called
    shutdownErr,    \* what server.Shutdown returned
    urlEmitted,     \* the authorization URL was printed
    browser,        \* the browser command was started
    h,              \* the callback handler goroutines
    arrived,        \* callback requests accepted so far
    waitEnd,        \* how the select ended
    got,            \* the callback request whose value the select received
    exchanged,      \* config.Exchange was called
    flowResult,     \* what getTokenFromWeb returned
    memToken,       \* the token getTokenFromWeb returned
    saveTok,        \* the argument of the running saveToken
    saveResult,     \* what saveToken returned
    fileWritten,    \* this process opened the token file for writing
    warned,         \* the save-failure warning was printed
    clientResult,   \* what getClient returned
    clientToken,    \* the token of the client getClient returned
    \* the token-store harness and the other process reading the file
    saves,          \* saveToken calls of the harness so far
    savePrev,       \* the file as it was when the last saveToken was called
    loaded,         \* what tokenFromFile returned to the harness since then
    rdCount,        \* reads of the file by the other process so far
    rdSeen,         \* what it observed since the last saveToken was called
    startFile,      \* the token file as it was when the command observed on its own started
    \* what the process has printed
    out,            \* the texts written to standard output and standard error, in order
    \* a command handler of the command-line interface (current process)
    cmd,            \* the command that was invoked
    cpc,            \* where its handler is
    args,           \* its arguments and flags
    calls,          \* the requests sent to the mail service, in order, with their outcome
    work,           \* the handler's local variables
    cerr,           \* the error the handler returned, "" for nil
    exitCode,       \* the exit status of the process
    \* the helper functions called on their own
    hx,             \* a call of extractHeaders
    bx              \* a call of getBody

fsVars == <<fileExists, file, lastSaved>>
flowVars == <<srv, listening, shutdownCalled, shutdownErr, urlEmitted, browser, h, arrived,
              waitEnd, got, exchanged, flowResult, memToken>>
saveVars == <<saveTok, saveResult, fileWritten>>
clientVars == <<loadResult, warned, clientResult, clientToken>>
storeVars == <<saves, savePrev, loaded, rdCount, rdSeen, startFile>>
authVars == <<fsVars, invocations, pc, flowVars, saveVars, clientVars, storeVars>>
runVars == <<cmd, cpc, args, calls, work, cerr, exitCode>>
cmdVars == <<runVars, hx, bx>>

vars == <<fileExists, file, lastSaved, invocations, pc, loadResult, srv, listening,
          shutdownCalled, shutdownErr, urlEmitted, browser, h, arrived, waitEnd, got,
          exchanged, flowResult, memToken, saveTok, saveResult, fileWritten, warned,
          clientResult, clientToken, saves, savePrev, loaded, rdCount, rdSeen, startFile,
          out, cmd,
          cpc, args, calls, work, cerr, exitCode, hx, bx>>

(***************************************************************************)
(* Callback requests.  The handler reads the code parameter only; state    *)
(* and error are the other query parameters a request may carry.  A        *)
(* request without a state parameter is handled like one with a foreign    *)
(* state: the handler never looks at it.                                   *)
(***************************************************************************)
\* the state value getTokenFromWeb puts in the authorization URL
StateToken == "state-token"

Codes == {"", "ABC"}
States == {"state-token", "forged"}
Errors == {"", "access_denied"}

Requests == [code : Codes, state : States, error : Errors]

\* "no request": the value of got before the select has received from a handler
NoRequest == [code |-> "-", state |-> "-", error |-> "-"]

\* a handler goroutine: "unused", "run" (request accepted), "sendErr" and
\* "sendCode" (blocked in the channel send), "done" (returned); page: it
\* has written the confirmation page to its response
Handler(p, r) == [pc |-> p, req |-> r, page |-> FALSE]

\* one text written by the process: the stream it went to, which text it
\* is, and the values formatted into it
Out(stream, kind, data) == [stream |-> stream, kind |-> kind, data |-> data]

\* one request sent to a remote service and whether it succeeded
Call(op, target, ok) == [op |-> op, target |-> target, ok |-> ok]

(***************************************************************************)
(* The state of a fresh process, and the initial state.                    *)
(***************************************************************************)
FreshProcess ==
    /\ out = <<>>
    /\ loadResult = "none"
    /\ srv = "none"
    /\ listening = FALSE
    /\ shutdownCalled = FALSE
    /\ shutdownErr = "none"
    /\ urlEmitted = FALSE
    /\ browser = FALSE
    /\ h = [i \in 1..MaxCallbacks |-> Handler("unused", NoRequest)]
    /\ arrived = 0
    /\ waitEnd = "none"
    /\ got = NoRequest
    /\ exchanged = FALSE
    /\ flowResult = "none"
    /\ memToken = NoToken
    /\ saveTok = NoToken
    /\ saveResult = "none"
    /\ fileWritten = FALSE
    /\ warned = FALSE
    /\ clientResult = "none"
    /\ clientToken = NoToken

\* the harness has not called tokenFromFile since the last saveToken
NotLoaded == [err |-> "none", tok |-> ZeroToken]

\* the other process has not read the file since the last saveToken began
NotRead == [seen |-> FALSE, exists |-> FALSE, content |-> <<>>, during |-> FALSE]

StoreIdle ==
    /\ saves = 0
    /\ savePrev = [exists |-> FALSE, content |-> <<>>]
    /\ loaded = NotLoaded
    /\ rdCount = 0
    /\ rdSeen = NotRead
    /\ startFile = [exists |-> FALSE, content |-> <<>>]

\* no command handler is running
NoCommand ==
    /\ cmd = "none"
    /\ cpc = "idle"
    /\ args = <<>>
    /\ calls = <<>>
    /\ work = <<>>
    /\ cerr = ""
    /\ exitCode = "none"

\* no command handler is running and no helper has been called
CmdIdle ==
    /\ NoCommand
    /\ hx = <<>>
    /\ bx = <<>>

\* no command has been started, and there is no token file yet
AuthIdle ==
    /\ fileExists = FALSE
    /\ file = <<>>
    /\ lastSaved = NoToken
    /\ invocations = 0
    /\ pc = "idle"
    /\ StoreIdle

\* before the first command: no token file yet
Init ==
    /\ AuthIdle
    /\ FreshProcess
    /\ CmdIdle

(***************************************************************************)
(* saveToken(path, token), auth.go 183-197, one action per system call.    *)
(***************************************************************************)
\* the notice on standard error, then os.MkdirAll(filepath.Dir(path), 0700)
SaveMkdir ==
    /\ pc = "mkdir"
    /\ out' = Append(out, Out("stderr", "savingCredentials", <<>>))
    /\ \/ /\ pc' = "open"
          /\ UNCHANGED saveResult
       \/ /\ pc' = "afterSave"
          /\ saveResult' = "error"
    /\ UNCHANGED <<fsVars, invocations, flowVars, saveTok, fileWritten, clientVars, storeVars,
                   cmdVars>>

\* a variant of SaveOpen that opens the file without O_TRUNC
SaveOpenNoTrunc ==
    /\ pc = "open"
    /\ \/ /\ fileExists' = TRUE
          /\ file' = file
          /\ lastSaved' = NoToken
          /\ fileWritten' = TRUE
          /\ pc' = "encode"
          /\ UNCHANGED saveResult
       \/ /\ pc' = "afterSave"
          /\ saveResult' = "error"
          /\ UNCHANGED <<fsVars, fileWritten>>
    /\ UNCHANGED <<invocations, flowVars, saveTok, clientVars, storeVars, cmdVars, out>>

\* os.OpenFile(path, O_RDWR|O_CREATE|O_TRUNC, 0600): creates the file or
\* cuts it to length 0, or fails and leaves it alone
SaveOpen ==
    /\ pc = "open"
    /\ \/ /\ fileExists' = TRUE
          /\ file' = <<>>
          /\ lastSaved' = NoToken
          /\ fileWritten' = TRUE
          /\ pc' = "encode"
          /\ UNCHANGED saveResult
       \/ /\ pc' = "afterSave"
          /\ saveResult' = "error"
          /\ UNCHANGED <<fsVars, fileWritten>>
    /\ UNCHANGED <<invocations, flowVars, saveTok, clientVars, storeVars, cmdVars, out>>

\* json.NewEncoder(f).Encode(token), then the deferred f.Close(): one write
\* of the whole encoding at offset 0, or a short write and an error
SaveEncode ==
    /\ pc = "encode"
    /\ \/ /\ file' = WriteAt0(file, EncodeToken(saveTok))
          /\ lastSaved' = saveTok
          /\ saveResult' = "ok"
       \/ /\ \E n \in 0..(Len(EncodeToken(saveTok)) - 1) :
                 file' = WriteAt0(file, SubSeq(EncodeToken(saveTok), 1, n))
          /\ lastSaved' = NoToken
          /\ saveResult' = "error"
    /\ pc' = "afterSave"
    /\ UNCHANGED <<fileExists, invocations, flowVars, saveTok, fileWritten, clientVars,
                   storeVars, cmdVars, out>>

(***************************************************************************)
(* The token store on its own: saveToken and tokenFromFile called on the   *)
(* token path with any tokens, and another process reading the file at any *)
(* moment (the sibling tool that shares the credentials directory).        *)
(***************************************************************************)
StoreSave ==
    /\ pc = "store"
    /\ saves < MaxSaves
    /\ \E t \in Tokens : saveTok' = t
    /\ saveResult' = "none"
    /\ savePrev' = [exists |-> fileExists, content |-> file]
    /\ saves' = saves + 1
    /\ loaded' = NotLoaded
    /\ rdSeen' = NotRead
    /\ pc' = "mkdir"
    /\ UNCHANGED <<fsVars, invocations, flowVars, fileWritten, clientVars, rdCount, startFile,
                   cmdVars, out>>

StoreAfterSave ==
    /\ pc = "afterSave"
    /\ pc' = "store"
    /\ UNCHANGED <<fsVars, invocations, flowVars, saveVars, clientVars, storeVars, cmdVars, out>>

StoreLoad ==
    /\ pc = "store"
    /\ loaded' = tokenFromFile(fileExists, file)
    /\ UNCHANGED <<fsVars, invocations, pc, flowVars, saveVars, clientVars, saves, savePrev,
                   rdCount, rdSeen, startFile, cmdVars, out>>

\* the other process: os.Open and one read of the whole file
ReaderRead ==
    /\ rdCount < MaxReads
    /\ rdCount' = rdCount + 1
    /\ rdSeen' = [seen |-> TRUE, exists |-> fileExists, content |-> file,
                  during |-> pc \in {"mkdir", "open", "encode"}]
    /\ UNCHANGED <<fsVars, invocations, pc, flowVars, saveVars, clientVars, saves, savePrev,
                   loaded, startFile, cmdVars, out>>

StoreInit ==
    /\ fileExists = FALSE
    /\ file = <<>>
    /\ lastSaved = NoToken
    /\ invocations = 0
    /\ pc = "store"
    /\ FreshProcess
    /\ StoreIdle
    /\ CmdIdle

StoreNext ==
    \/ StoreSave
    \/ SaveMkdir
    \/ SaveOpen
    \/ SaveEncode
    \/ StoreAfterSave
    \/ StoreLoad
    \/ ReaderRead

StoreSpec == StoreInit /\ [][StoreNext]_vars

(***************************************************************************)
(* getTokenFromWeb(config), auth.go 81-169.                                *)
(***************************************************************************)
\* lines 83-120: the channels, the server value, the handler registration
\* and the go statement that starts the listener goroutine
FlowStart ==
    /\ pc = "flowStart"
    /\ srv' = "starting"
    /\ pc' = "sleep"
    /\ UNCHANGED <<fsVars, invocations, listening, shutdownCalled, shutdownErr, urlEmitted,
                   browser, h, arrived, waitEnd, got, exchanged, flowResult, memToken,
                   saveVars, clientVars, storeVars, cmdVars, out>>

\* the listener goroutine, lines 113-120, server.ListenAndServe(): it binds
\* port 8080 and serves, or fails to bind and goes on to send the error on
\* errChan.  (Shutdown cannot come first: it follows a callback.)
SrvListen ==
    /\ srv = "starting"
    /\ \/ /\ listening' = TRUE
          /\ srv' = "serving"
       \/ /\ srv' = "sendErr"
          /\ UNCHANGED listening
    /\ UNCHANGED <<fsVars, invocations, pc, shutdownCalled, shutdownErr, urlEmitted, browser,
                   h, arrived, waitEnd, got, exchanged, flowResult, memToken, saveVars,
                   clientVars, storeVars, cmdVars, out>>

\* line 123: time.Sleep(100 * time.Millisecond) returns
FlowSleep ==
    /\ pc = "sleep"
    /\ pc' = "emit"
    /\ UNCHANGED <<fsVars, invocations, flowVars, saveVars, clientVars, storeVars, cmdVars, out>>

\* lines 126-143: the notice and the URL with the state value are printed
\* with fmt.Printf and the browser command is started (cmd.Start(), whose
\* error is dropped)
FlowEmitURL ==
    /\ pc = "emit"
    /\ urlEmitted' = TRUE
    /\ out' = out \o <<Out("stdout", "browserNotice", <<>>),
                       Out("stdout", "authURL", <<StateToken>>)>>
    /\ browser' = TRUE
    /\ pc' = "wait"
    /\ UNCHANGED <<fsVars, invocations, srv, listening, shutdownCalled, shutdownErr, h,
                   arrived, waitEnd, got, exchanged, flowResult, memToken, saveVars,
                   clientVars, storeVars, cmdVars>>

\* a request to /oauth2callback is accepted: net/http starts a goroutine
\* that runs the handler.  Any client of the port can send any parameters.
CallbackArrive ==
    /\ listening
    /\ arrived < MaxCallbacks
    /\ \E r \in Requests : h' = [h EXCEPT ![arrived + 1] = Handler("run", r)]
    /\ arrived' = arrived + 1
    /\ UNCHANGED <<fsVars, invocations, pc, srv, listening, shutdownCalled, shutdownErr,
                   urlEmitted, browser, waitEnd, got, exchanged, flowResult, memToken,
                   saveVars, clientVars, storeVars, cmdVars, out>>

\* a variant of HandlerRun that goes to send the code with no page written
HandlerRunSendFirst(i) ==
    /\ h[i].pc = "run"
    /\ h' = [h EXCEPT ![i].pc = IF h[i].req.code = "" THEN "sendErr" ELSE "sendCode"]
    /\ UNCHANGED <<fsVars, invocations, pc, srv, listening, shutdownCalled, shutdownErr,
                   urlEmitted, browser, arrived, waitEnd, got, exchanged, flowResult,
                   memToken, saveVars, clientVars, storeVars, cmdVars, out>>

\* lines 92-109, up to the channel send: with no code the handler goes to
\* send on errChan; else it writes the page and goes to send on codeChan
HandlerRun(i) ==
    /\ h[i].pc = "run"
    /\ h' = IF h[i].req.code = ""
            THEN [h EXCEPT ![i].pc = "sendErr"]
            ELSE [h EXCEPT ![i].pc = "sendCode", ![i].page = TRUE]
    /\ UNCHANGED <<fsVars, invocations, pc, srv, listening, shutdownCalled, shutdownErr,
                   urlEmitted, browser, arrived, waitEnd, got, exchanged, flowResult,
                   memToken, saveVars, clientVars, storeVars, cmdVars, out>>

\* a variant of FlowRecvCode that goes on to the exchange at once
FlowRecvCodeNoShutdown ==
    /\ pc = "wait"
    /\ \E i \in 1..MaxCallbacks :
          /\ h[i].pc = "sendCode"
          /\ got' = h[i].req
          /\ h' = [h EXCEPT ![i].pc = "done", ![i].req = NoRequest]
    /\ waitEnd' = "code"
    /\ pc' = "exchange"
    /\ UNCHANGED <<fsVars, invocations, srv, listening, shutdownCalled, shutdownErr,
                   urlEmitted, browser, arrived, exchanged, flowResult, memToken, saveVars,
                   clientVars, storeVars, cmdVars, out>>

\* line 148, case code = <-codeChan: the select meets a handler blocked in
\* codeChan <- code; the handler returns and the flow goes on to line 157
FlowRecvCode ==
    /\ pc = "wait"
    /\ \E i \in 1..MaxCallbacks :
          /\ h[i].pc = "sendCode"
          /\ got' = h[i].req
          /\ h' = [h EXCEPT ![i].pc = "done", ![i].req = NoRequest]
    /\ waitEnd' = "code"
    /\ pc' = "shutdown"
    /\ UNCHANGED <<fsVars, invocations, srv, listening, shutdownCalled, shutdownErr,
                   urlEmitted, browser, arrived, exchanged, flowResult, memToken, saveVars,
                   clientVars, storeVars, cmdVars, out>>

\* lines 150-151, case err := <-errChan: the select meets a sender blocked
\* in errChan <- err, a handler (no code in callback) or the listener
\* goroutine (ListenAndServe failed), and getTokenFromWeb returns that error
FlowRecvErr ==
    /\ pc = "wait"
    /\ \/ /\ \E i \in 1..MaxCallbacks :
                /\ h[i].pc = "sendErr"
                /\ got' = h[i].req
                /\ h' = [h EXCEPT ![i].pc = "done", ![i].req = NoRequest]
          /\ flowResult' = "errNoCode"
          /\ UNCHANGED srv
       \/ /\ srv = "sendErr"
          /\ srv' = "exited"
          /\ flowResult' = "errListen"
          /\ UNCHANGED <<h, got>>
    /\ waitEnd' = "err"
    /\ pc' = "flowDone"
    /\ UNCHANGED <<fsVars, invocations, listening, shutdownCalled, shutdownErr, urlEmitted,
                   browser, arrived, exchanged, memToken, saveVars, clientVars, storeVars, cmdVars, out>>

\* a variant of FlowTimeout for a select without the timer case
FlowTimeoutNever ==
    /\ FALSE
    /\ UNCHANGED vars

\* a variant of FlowTimeout whose timer can fire at any moment of the wait,
\* whatever is ready on the channels
FlowTimeoutAnyTime ==
    /\ pc = "wait"
    /\ waitEnd' = "timeout"
    /\ flowResult' = "errTimeout"
    /\ pc' = "flowDone"
    /\ UNCHANGED <<fsVars, invocations, srv, listening, shutdownCalled, shutdownErr,
                   urlEmitted, browser, h, arrived, got, exchanged, memToken, saveVars,
                   clientVars, storeVars, cmdVars, out>>

\* lines 152-153, case <-time.After(3 * time.Minute).  The timer is created
\* when the select at line 145 is entered, so the case is taken only by a
\* select that has waited 3 minutes: a sender that was already blocked on
\* codeChan or errChan is met at once, and one that comes during the wait
\* hands its value to the waiting select, so no sender is blocked when the
\* timer case is taken.  The listener goroutine started at line 113 has
\* made its bind attempt by then.
FlowTimeout ==
    /\ pc = "wait"
    /\ srv \notin {"starting", "sendErr"}
    /\ \A i \in 1..MaxCallbacks : h[i].pc \notin {"sendCode", "sendErr"}
    /\ waitEnd' = "timeout"
    /\ flowResult' = "errTimeout"
    /\ pc' = "flowDone"
    /\ UNCHANGED <<fsVars, invocations, srv, listening, shutdownCalled, shutdownErr,
                   urlEmitted, browser, h, arrived, got, exchanged, memToken, saveVars,
                   clientVars, storeVars, cmdVars, out>>

\* lines 157-159: server.Shutdown with a 5 second deadline.  It closes the
\* listener first, then waits for the connections to be idle: it returns
\* nil when no handler is running, the deadline error when one still is.
\* The error is dropped.  ListenAndServe returns ErrServerClosed.
FlowShutdown ==
    /\ pc = "shutdown"
    /\ shutdownCalled' = TRUE
    /\ listening' = FALSE
    /\ srv' = "closed"
    /\ shutdownErr' = IF \E i \in 1..MaxCallbacks : h[i].pc \in {"run", "sendErr", "sendCode"}
                      THEN "deadline" ELSE "nil"
    /\ pc' = "exchange"
    /\ UNCHANGED <<fsVars, invocations, urlEmitted, browser, h, arrived, waitEnd, got,
                   exchanged, flowResult, memToken, saveVars, clientVars, storeVars, cmdVars, out>>

\* lines 162-168: config.Exchange(ctx, code) returns a token, and the
\* success text is printed with fmt.Println, or it fails
FlowExchange ==
    /\ pc = "exchange"
    /\ exchanged' = TRUE
    /\ \/ /\ \E t \in ExchangeTokens : memToken' = t
          /\ flowResult' = "token"
          /\ out' = Append(out, Out("stdout", "authSuccess", <<>>))
       \/ /\ flowResult' = "errExchange"
          /\ UNCHANGED <<memToken, out>>
    /\ pc' = "flowDone"
    /\ UNCHANGED <<fsVars, invocations, srv, listening, shutdownCalled, shutdownErr,
                   urlEmitted, browser, h, arrived, waitEnd, got, saveVars, clientVars,
                   storeVars, cmdVars>>

(***************************************************************************)
(* getClient(ctx), auth.go 39-65, and the process around it: a command is  *)
(* started, its handler calls getGmailService, which calls getClient; the  *)
(* process exits after the command.                                        *)
(***************************************************************************)
\* a command is started: a new process
Invoke ==
    /\ pc = "idle"
    /\ invocations < MaxInvocations
    /\ invocations' = invocations + 1
    /\ pc' = "readCreds"
    /\ UNCHANGED <<fsVars, flowVars, saveVars, clientVars, storeVars, cmdVars, out>>

\* lines 43-51: the credentials file is read and parsed, or getClient fails
ReadCreds ==
    /\ pc = "readCreds"
    /\ \/ /\ pc' = "load"
          /\ UNCHANGED clientResult
       \/ /\ clientResult' = "error"
          /\ pc' = "returned"
    /\ UNCHANGED <<fsVars, invocations, flowVars, saveVars, loadResult, warned, clientToken,
                   storeVars, cmdVars, out>>

\* a variant of LoadToken that runs the flow whatever tokenFromFile returned
LoadTokenAlwaysFlow ==
    /\ pc = "load"
    /\ loadResult' = IF tokenFromFile(fileExists, file).err = "" THEN "ok" ELSE "fail"
    /\ pc' = "flowStart"
    /\ UNCHANGED <<fsVars, invocations, flowVars, saveVars, warned, clientResult,
                   clientToken, storeVars, cmdVars, out>>

\* lines 53-54 and 64: tokenFromFile(tokenPath); with no error the client
\* is built from the loaded token, else the flow is run
LoadToken ==
    /\ pc = "load"
    /\ LET r == tokenFromFile(fileExists, file) IN
       \/ /\ r.err = ""
          /\ loadResult' = "ok"
          /\ clientResult' = "client"
          /\ clientToken' = r.tok
          /\ pc' = "returned"
       \/ /\ r.err # ""
          /\ loadResult' = "fail"
          /\ pc' = "flowStart"
          /\ UNCHANGED <<clientResult, clientToken>>
    /\ UNCHANGED <<fsVars, invocations, flowVars, saveVars, warned, storeVars, cmdVars, out>>

\* lines 55-59: getTokenFromWeb has returned; on an error getClient returns
\* it, else it calls saveToken(tokenPath, token)
AfterFlow ==
    /\ pc = "flowDone"
    /\ \/ /\ flowResult = "token"
          /\ saveTok' = memToken
          /\ pc' = "mkdir"
          /\ UNCHANGED clientResult
       \/ /\ flowResult # "token"
          /\ clientResult' = "error"
          /\ pc' = "returned"
          /\ UNCHANGED saveTok
    /\ UNCHANGED <<fsVars, invocations, flowVars, saveResult, fileWritten, loadResult, warned,
                   clientToken, storeVars, cmdVars, out>>

\* a variant of AfterSave that returns saveToken's error
AfterSaveFatal ==
    /\ pc = "afterSave"
    /\ \/ /\ saveResult = "error"
          /\ clientResult' = "error"
          /\ UNCHANGED <<warned, clientToken>>
       \/ /\ saveResult # "error"
          /\ clientResult' = "client"
          /\ clientToken' = memToken
          /\ UNCHANGED warned
    /\ pc' = "returned"
    /\ UNCHANGED <<fsVars, invocations, flowVars, saveVars, loadResult, storeVars, cmdVars, out>>

\* lines 59-64: saveToken has returned; its error is printed as a warning,
\* and the client is built from the token the flow returned
AfterSave ==
    /\ pc = "afterSave"
    /\ warned' = (saveResult = "error")
    /\ out' = IF saveResult = "error"
              THEN Append(out, Out("stderr", "saveWarning", <<>>))
              ELSE out
    /\ clientResult' = "client"
    /\ clientToken' = memToken
    /\ pc' = "returned"
    /\ UNCHANGED <<fsVars, invocations, flowVars, saveVars, loadResult, storeVars, cmdVars>>

\* a variant of RunCommand in which the handler goes on to its request
\* whatever getGmailService returned
RunCommandAnyway ==
    /\ pc = "returned"
    /\ cpc = "idle"
    /\ \E ok \in BOOLEAN :
          /\ calls' = <<Call("request", <<>>, ok)>>
          /\ cerr' = IF ok THEN "" ELSE "request"
          /\ exitCode' = IF ok THEN 0 ELSE 1
          /\ out' = IF ok THEN out ELSE Append(out, Out("stderr", "error", <<"request">>))
    /\ cpc' = "exited"
    /\ UNCHANGED <<authVars, cmd, args, work, hx, bx>>

\* getClient has returned to getGmailService (lines 67-79) and that to the
\* handler (lines 359-363 and alike): on an error, of getClient or of
\* gmail.NewService, the handler returns it; else it sends its requests,
\* one here.  Then main.go 36-39: an error is printed, the status is 1
RunCommand ==
    /\ pc = "returned"
    /\ cpc = "idle"
    /\ \/ /\ clientResult = "error"
          /\ cerr' = "service"
          /\ exitCode' = 1
          /\ out' = Append(out, Out("stderr", "error", <<"service">>))
          /\ UNCHANGED calls
       \/ /\ clientResult = "client"
          /\ \/ /\ cerr' = "service"
                /\ exitCode' = 1
                /\ out' = Append(out, Out("stderr", "error", <<"service">>))
                /\ UNCHANGED calls
             \/ \E ok \in BOOLEAN :
                   /\ calls' = <<Call("request", <<>>, ok)>>
                   /\ cerr' = IF ok THEN "" ELSE "request"
                   /\ exitCode' = IF ok THEN 0 ELSE 1
                   /\ out' = IF ok THEN out
                             ELSE Append(out, Out("stderr", "error", <<"request">>))
    /\ cpc' = "exited"
    /\ UNCHANGED <<authVars, cmd, args, work, hx, bx>>

\* the command ends and the process exits (main.go 36-39): its goroutines
\* and its listener go with it; the token file stays
Exit ==
    /\ pc = "returned"
    /\ pc' = "idle"
    /\ loadResult' = "none"
    /\ srv' = "none"
    /\ listening' = FALSE
    /\ shutdownCalled' = FALSE
    /\ shutdownErr' = "none"
    /\ urlEmitted' = FALSE
    /\ browser' = FALSE
    /\ h' = [i \in 1..MaxCallbacks |-> Handler("unused", NoRequest)]
    /\ arrived' = 0
    /\ waitEnd' = "none"
    /\ got' = NoRequest
    /\ exchanged' = FALSE
    /\ flowResult' = "none"
    /\ memToken' = NoToken
    /\ saveTok' = NoToken
    /\ saveResult' = "none"
    /\ fileWritten' = FALSE
    /\ warned' = FALSE
    /\ clientResult' = "none"
    /\ clientToken' = NoToken
    /\ out' = <<>>
    /\ UNCHANGED <<fsVars, invocations, storeVars, cmdVars>>

Next ==
    \/ Invoke
    \/ ReadCreds
    \/ LoadToken
    \/ FlowStart
    \/ SrvListen
    \/ FlowSleep
    \/ FlowEmitURL
    \/ CallbackArrive
    \/ \E i \in 1..MaxCallbacks : HandlerRun(i)
    \/ FlowRecvCode
    \/ FlowRecvErr
    \/ FlowTimeout
    \/ FlowShutdown
    \/ FlowExchange
    \/ AfterFlow
    \/ SaveMkdir
    \/ SaveOpen
    \/ SaveEncode
    \/ AfterSave
    \/ Exit

Spec == Init /\ [][Next]_vars

(***************************************************************************)
(* One command from the entry of getClient to the exit of the process,     *)
(* started with no token file, an empty one, one holding a token, or one   *)
(* cut short after its first two lexemes.                                  *)
(***************************************************************************)
ClientInit ==
    /\ \/ /\ fileExists = FALSE
          /\ file = <<>>
          /\ lastSaved = NoToken
       \/ /\ fileExists = TRUE
          /\ file = <<>>
          /\ lastSaved = NoToken
       \/ \E t \in Tokens :
             /\ fileExists = TRUE
             /\ \/ /\ file = EncodeToken(t)
                   /\ lastSaved = t
                \/ /\ file = SubSeq(EncodeToken(t), 1, 2)
                   /\ lastSaved = NoToken
    /\ invocations = 1
    /\ pc = "readCreds"
    /\ FreshProcess
    /\ saves = 0
    /\ savePrev = [exists |-> FALSE, content |-> <<>>]
    /\ loaded = NotLoaded
    /\ rdCount = 0
    /\ rdSeen = NotRead
    /\ startFile = [exists |-> fileExists, content |-> file]
    /\ CmdIdle

ClientNext ==
    \/ ReadCreds
    \/ LoadToken
    \/ FlowStart
    \/ SrvListen
    \/ FlowSleep
    \/ FlowEmitURL
    \/ CallbackArrive
    \/ \E i \in 1..MaxCallbacks : HandlerRun(i)
    \/ FlowRecvCode
    \/ FlowRecvErr
    \/ FlowTimeout
    \/ FlowShutdown
    \/ FlowExchange
    \/ AfterFlow
    \/ SaveMkdir
    \/ SaveOpen
    \/ SaveEncode
    \/ AfterSave
    \/ RunCommand

ClientSpec == ClientInit /\ [][ClientNext]_vars

(***************************************************************************)
(* getTokenFromWeb on its own: one call, from its first line to its        *)
(* return, with the goroutines it starts running on after it returned.     *)
(***************************************************************************)
FlowInit ==
    /\ fileExists = FALSE
    /\ file = <<>>
    /\ lastSaved = NoToken
    /\ invocations = 1
    /\ pc = "flowStart"
    /\ FreshProcess
    /\ StoreIdle
    /\ CmdIdle

FlowNext ==
    \/ FlowStart
    \/ SrvListen
    \/ FlowSleep
    \/ FlowEmitURL
    \/ CallbackArrive
    \/ \E i \in 1..MaxCallbacks : HandlerRun(i)
    \/ FlowRecvCode
    \/ FlowRecvErr
    \/ FlowTimeout
    \/ FlowShutdown
    \/ FlowExchange

FlowSpec == FlowInit /\ [][FlowNext]_vars

\* time passes: the listener goroutine makes its bind attempt, the select
\* takes a case that is ready (a blocked sender is received from) and the
\* timer fires unless the wait ends before
FairFlowSpec ==
    /\ FlowSpec
    /\ WF_vars(SrvListen)
    /\ WF_vars(FlowRecvCode) /\ WF_vars(FlowRecvErr) /\ WF_vars(FlowTimeout)

\* every goroutine of the flow that can take a step takes it: the flow's own
\* goroutine, the listener goroutine and each handler goroutine are
\* scheduled, a ready case of the select is taken and the timer fires.  Only
\* the arrival of a callback is left to the outside world.
LiveFlowSpec ==
    /\ FlowSpec
    /\ WF_vars(FlowStart) /\ WF_vars(SrvListen) /\ WF_vars(FlowSleep)
    /\ WF_vars(FlowEmitURL)
    /\ \A i \in 1..MaxCallbacks : WF_vars(HandlerRun(i))
    /\ WF_vars(FlowRecvCode) /\ WF_vars(FlowRecvErr) /\ WF_vars(FlowTimeout)
    /\ WF_vars(FlowShutdown) /\ WF_vars(FlowExchange)

(***************************************************************************)
(* extractHeaders(headers), auth.go 638-648 (ExtractHeaders in the gmail    *)
(* package is the same loop).  A header is a name and a value; the header  *)
(* list is in the order of the message.                                    *)
(***************************************************************************)
MaxHeaders == 3
HeaderNames == {"Subject", "From", "subject", "To"}
HeaderValues == {"", "a", "b"}
Headers == [name : HeaderNames, value : HeaderValues]

\* the sequences over S of length at most n
RECURSIVE SeqsUpTo(_, _)
SeqsUpTo(S, n) ==
    IF n = 0 THEN {<<>>}
    ELSE LET shorter == SeqsUpTo(S, n - 1)
         IN  shorter \cup {Append(q, x) : q \in shorter, x \in S}

\* a variant of the loop in which the first header of a name wins
RECURSIVE extractLoopFirst(_, _, _, _)
extractLoopFirst(headers, i, subject, from) ==
    IF i > Len(headers) THEN [subject |-> subject, from |-> from]
    ELSE extractLoopFirst(headers, i + 1,
             IF headers[i].name = "Subject" /\ subject = "" THEN headers[i].value ELSE subject,
             IF headers[i].name = "From" /\ from = "" THEN headers[i].value ELSE from)

\* the range loop with its switch on header.Name, from header i on, with
\* the named results as they stand
RECURSIVE extractLoop(_, _, _, _)
extractLoop(headers, i, subject, from) ==
    IF i > Len(headers) THEN [subject |-> subject, from |-> from]
    ELSE extractLoop(headers, i + 1,
             IF headers[i].name = "Subject" THEN headers[i].value ELSE subject,
             IF headers[i].name = "From" THEN headers[i].value ELSE from)

extractHeaders(headers) == extractLoop(headers, 1, "", "")

\* a call of extractHeaders on a header list
HeaderInit ==
    /\ AuthIdle
    /\ FreshProcess
    /\ NoCommand
    /\ bx = <<>>
    /\ \E hs \in SeqsUpTo(Headers, MaxHeaders) :
          hx = [headers |-> hs, pc |-> "call", subject |-> "", from |-> ""]

HeaderCall ==
    /\ hx.pc = "call"
    /\ hx' = [hx EXCEPT !.pc = "returned",
                        !.subject = extractHeaders(hx.headers).subject,
                        !.from = extractHeaders(hx.headers).from]
    /\ UNCHANGED <<authVars, runVars, bx, out>>

HeaderNext == HeaderCall

HeaderSpec == HeaderInit /\ [][HeaderNext]_vars

(***************************************************************************)
(* base64.URLEncoding of encoding/base64, which the handlers call at        *)
(* auth.go 653, 662, 603 and 706.  A string is the sequence of its bytes;   *)
(* the alphabet is A-Z a-z 0-9 - _ and the padding character is = (61).    *)
(***************************************************************************)
\* the character of each 6-bit value, at index value + 1
encodeURL ==
    [i \in 1..64 |-> IF i <= 26 THEN 64 + i
                     ELSE IF i <= 52 THEN 70 + i
                     ELSE IF i <= 62 THEN i - 5
                     ELSE IF i = 63 THEN 45 ELSE 95]

\* the 6-bit value of a character, 64 for a character outside the alphabet
B64Val(c) ==
    IF \E i \in 1..64 : encodeURL[i] = c
    THEN (CHOOSE i \in 1..64 : encodeURL[i] = c) - 1
    ELSE 64

\* EncodeToString: three bytes to four characters, the last group padded
RECURSIVE EncodeToString(_)
EncodeToString(b) ==
    IF Len(b) = 0 THEN <<>>
    ELSE IF Len(b) = 1
    THEN <<encodeURL[(b[1] \div 4) + 1], encodeURL[((b[1] % 4) * 16) + 1], 61, 61>>
    ELSE IF Len(b) = 2
    THEN LET n == b[1] * 256 + b[2]
         IN  <<encodeURL[(n \div 1024) + 1], encodeURL[((n \div 16) % 64) + 1],
               encodeURL[((n % 16) * 4) + 1], 61>>
    ELSE LET n == b[1] * 65536 + b[2] * 256 + b[3]
         IN  <<encodeURL[(n \div 262144) + 1], encodeURL[((n \div 4096) % 64) + 1],
               encodeURL[((n \div 64) % 64) + 1], encodeURL[(n % 64) + 1]>>
             \o EncodeToString(SubSeq(b, 4, Len(b)))

DecodeFailed == [err |-> TRUE, data |-> <<>>]

\* the decoding of a string without line breaks, four characters at a
\* time; padding is accepted in the last group only
RECURSIVE DecodeQuanta(_)
DecodeQuanta(s) ==
    IF Len(s) = 0 THEN [err |-> FALSE, data |-> <<>>]
    ELSE IF Len(s) < 4 THEN DecodeFailed
    ELSE LET v1 == B64Val(s[1])
             v2 == B64Val(s[2])
             v3 == B64Val(s[3])
             v4 == B64Val(s[4])
             last == Len(s) = 4
             rest == DecodeQuanta(SubSeq(s, 5, Len(s)))
         IN  IF v1 = 64 \/ v2 = 64 THEN DecodeFailed
             ELSE IF s[3] = 61
             THEN IF s[4] = 61 /\ last
                  THEN [err |-> FALSE, data |-> <<(v1 * 4 + v2 \div 16) % 256>>]
                  ELSE DecodeFailed
             ELSE IF v3 = 64 THEN DecodeFailed
             ELSE IF s[4] = 61
             THEN IF last
                  THEN LET n == v1 * 4096 + v2 * 64 + v3
                       IN  [err |-> FALSE, data |-> <<n \div 1024, (n \div 4) % 256>>]
                  ELSE DecodeFailed
             ELSE IF v4 = 64 THEN DecodeFailed
             ELSE IF rest.err THEN DecodeFailed
             ELSE LET n == v1 * 262144 + v2 * 4096 + v3 * 64 + v4
                  IN  [err |-> FALSE,
                       data |-> <<n \div 65536, (n \div 256) % 256, n % 256>> \o rest.data]

\* DecodeString: line breaks (CR, LF) are skipped, the rest is decoded
DecodeString(s) == DecodeQuanta(SelectSeq(s, LAMBDA c : c \notin {10, 13}))

(***************************************************************************)
(* Message parts (gmail.MessagePart): MIME type, file name, body and the   *)
(* sub-parts in document order.  A body is nil or holds its base64url data *)
(* and an attachment ID.                                                   *)
(***************************************************************************)
NilBody == [nil |-> TRUE, data |-> <<>>, attachmentId |-> ""]
Body(d, a) == [nil |-> FALSE, data |-> d, attachmentId |-> a]

\* the parts of exactly n nodes, and the part lists of n nodes in all, with
\* MIME type, file name and body drawn from L
RECURSIVE PartsOfSize(_, _), PartListsOfSize(_, _)
PartsOfSize(L, n) ==
    {[mimeType |-> l.mimeType, filename |-> l.filename, body |-> l.body, parts |-> f] :
        l \in L, f \in PartListsOfSize(L, n - 1)}

PartListsOfSize(L, n) ==
    IF n = 0 THEN {<<>>}
    ELSE UNION {{<<t>> \o f : t \in PartsOfSize(L, k), f \in PartListsOfSize(L, n - k)} :
                   k \in 1..n}

PartsUpTo(L, n) == UNION {PartsOfSize(L, k) : k \in 1..n}

(***************************************************************************)
(* getBody(part), auth.go 650-670 (GetBody in the gmail package is the     *)
(* same code).                                                             *)
(***************************************************************************)
MaxBodyParts == 3

\* "[No text content]"
NoTextContent == <<91, 78, 111, 32, 116, 101, 120, 116, 32, 99, 111, 110, 116, 101, 110, 116, 93>>

\* payloads: none, "Hi", "A", and "Hi" encoded without its padding
BodyData == {<<>>, EncodeToString(<<72, 105>>), EncodeToString(<<65>>),
             SubSeq(EncodeToString(<<72, 105>>), 1, 3)}
BodyLabels ==
    [mimeType : {"text/plain", "text/html"}, filename : {""},
     body : {NilBody} \cup {Body(d, "") : d \in BodyData}]

\* a variant of the loop over the sub-parts that takes a payload of any
\* MIME type
RECURSIVE getBodyPartsAnyType(_, _)
getBodyPartsAnyType(parts, i) ==
    IF i > Len(parts) THEN NoTextContent
    ELSE IF /\ ~parts[i].body.nil
            /\ parts[i].body.data # <<>>
            /\ ~DecodeString(parts[i].body.data).err
    THEN DecodeString(parts[i].body.data).data
    ELSE getBodyPartsAnyType(parts, i + 1)

\* lines 659-668: the loop over part.Parts from sub-part i on, then the
\* final return
RECURSIVE getBodyParts(_, _)
getBodyParts(parts, i) ==
    IF i > Len(parts) THEN NoTextContent
    ELSE IF /\ parts[i].mimeType = "text/plain"
            /\ ~parts[i].body.nil
            /\ parts[i].body.data # <<>>
            /\ ~DecodeString(parts[i].body.data).err
    THEN DecodeString(parts[i].body.data).data
    ELSE getBodyParts(parts, i + 1)

\* a variant of getBody that looks at the sub-parts before the part itself
getBodyPartsFirst(part) ==
    IF getBodyParts(part.parts, 1) # NoTextContent
    THEN getBodyParts(part.parts, 1)
    ELSE IF /\ ~part.body.nil
            /\ part.body.data # <<>>
            /\ ~DecodeString(part.body.data).err
    THEN DecodeString(part.body.data).data
    ELSE NoTextContent

\* lines 651-657: the payload of the part itself if it decodes; else the
\* loop over the sub-parts
getBody(part) ==
    IF /\ ~part.body.nil
       /\ part.body.data # <<>>
       /\ ~DecodeString(part.body.data).err
    THEN DecodeString(part.body.data).data
    ELSE getBodyParts(part.parts, 1)

\* a call of getBody on a part
BodyInit ==
    /\ AuthIdle
    /\ FreshProcess
    /\ NoCommand
    /\ hx = <<>>
    /\ \E p \in PartsUpTo(BodyLabels, MaxBodyParts) :
          bx = [part |-> p, pc |-> "call", result |-> <<>>]

BodyCall ==
    /\ bx.pc = "call"
    /\ bx' = [bx EXCEPT !.pc = "returned", !.result = getBody(bx.part)]
    /\ UNCHANGED <<authVars, runVars, hx, out>>

BodyNext == BodyCall

BodySpec == BodyInit /\ [][BodyNext]_vars

(***************************************************************************)
(* The command handlers, auth.go 358-634, each run by main through         *)
(* rootCmd.Execute() with the arguments its command declares.  A handler   *)
(* first calls getGmailService, which is getClient above; here it only     *)
(* succeeds or fails.  Every request to the mail service is appended to    *)
(* calls with its outcome.                                                 *)
(***************************************************************************)
MaxMsgs == 3
MaxParts == 4

ModifyCommands == {"apply", "archive", "create", "delete", "read", "unread"}
Commands == ModifyCommands \cup {"labels", "get", "list", "search", "send", "download"}

\* the request a handler with a single request sends
Request(c) ==
    CASE c \in {"apply", "archive", "read", "unread"} -> "Messages.Modify"
      [] c = "create" -> "Labels.Create"
      [] c = "delete" -> "Messages.Trash"
      [] c = "labels" -> "Labels.List"
      [] c = "get" -> "Messages.Get"
      [] c \in {"list", "search"} -> "Messages.List"
      [] c = "send" -> "Messages.Send"
      [] c = "download" -> "Messages.Get"

\* the flags of send: "a@x.com", "c@x.com", "b@x.com", "Hi", "Hello", or empty
SendFlags ==
    [to : {<<97, 64, 120, 46, 99, 111, 109>>},
     cc : {<<>>, <<99, 64, 120, 46, 99, 111, 109>>},
     bcc : {<<>>, <<98, 64, 120, 46, 99, 111, 109>>},
     subject : {<<>>, <<72, 105>>},
     body : {<<>>, <<72, 101, 108, 108, 111>>}]
NoFlags == [to |-> <<>>, cc |-> <<>>, bcc |-> <<>>, subject |-> <<>>, body |-> <<>>]

\* the locals of a handler before it has fetched anything
NoWork == [msgs |-> <<>>, i |-> 0, payload |-> <<>>, walking |-> FALSE, stack |-> <<>>,
           visited |-> <<>>, count |-> 0, writes |-> <<>>]

\* main has called the handler of a command
CmdInit ==
    /\ AuthIdle
    /\ FreshProcess
    /\ hx = <<>>
    /\ bx = <<>>
    /\ cmd \in Commands
    /\ args \in IF cmd = "send" THEN SendFlags ELSE {NoFlags}
    /\ cpc = "service"
    /\ calls = <<>>
    /\ work = NoWork
    /\ cerr = ""
    /\ exitCode = "none"

\* service, err := getGmailService(ctx); if err != nil { return err }
CmdService ==
    /\ cpc = "service"
    /\ \/ /\ cpc' = "run"
          /\ UNCHANGED cerr
       \/ /\ cpc' = "return"
          /\ cerr' = "service"
    /\ UNCHANGED <<authVars, hx, bx, cmd, args, calls, work, exitCode, out>>

\* runApplyLabel, runArchive, runCreateLabel, runDelete, runRead, runUnread:
\* one request, then the status text on standard error
RunModify ==
    /\ cpc = "run"
    /\ cmd \in ModifyCommands
    /\ \E ok \in BOOLEAN :
          /\ calls' = Append(calls, Call(Request(cmd), <<1>>, ok))
          /\ cerr' = IF ok THEN "" ELSE "request"
          /\ out' = IF ok THEN Append(out, Out("stderr", "status", <<cmd>>)) ELSE out
    /\ cpc' = "return"
    /\ UNCHANGED <<authVars, hx, bx, cmd, args, work, exitCode>>

\* runListLabels: one request, then a line per label on standard output
RunListLabels ==
    /\ cpc = "run"
    /\ cmd = "labels"
    /\ \/ /\ calls' = Append(calls, Call(Request(cmd), <<>>, FALSE))
          /\ cerr' = "request"
          /\ UNCHANGED out
       \/ /\ calls' = Append(calls, Call(Request(cmd), <<>>, TRUE))
          /\ \E n \in 0..MaxMsgs :
                out' = out \o [k \in 1..n |-> Out("stdout", "label", <<k>>)]
          /\ UNCHANGED cerr
    /\ cpc' = "return"
    /\ UNCHANGED <<authVars, hx, bx, cmd, args, work, exitCode>>

\* the header lists of the messages the service returns
MsgHeaders ==
    {<<>>,
     <<[name |-> "From", value |-> "a"], [name |-> "Subject", value |-> "b"],
       [name |-> "Subject", value |-> "a"]>>}

\* runGet: one request, then the From, To, Subject and Date headers, a
\* separator and getBody(msg.Payload) on standard output
RunGet ==
    /\ cpc = "run"
    /\ cmd = "get"
    /\ \/ /\ calls' = Append(calls, Call(Request(cmd), <<1>>, FALSE))
          /\ cerr' = "request"
          /\ UNCHANGED out
       \/ /\ calls' = Append(calls, Call(Request(cmd), <<1>>, TRUE))
          /\ \E hs \in MsgHeaders, p \in PartsOfSize(BodyLabels, 1) :
                out' = out
                       \o [k \in 1..Len(SelectSeq(hs, LAMBDA x :
                                  x.name \in {"From", "To", "Subject", "Date"})) |->
                             Out("stdout", "header", <<k>>)]
                       \o <<Out("stdout", "separator", <<>>),
                            Out("stdout", "body", getBody(p))>>
          /\ UNCHANGED cerr
    /\ cpc' = "return"
    /\ UNCHANGED <<authVars, hx, bx, cmd, args, work, exitCode>>

\* a variant of sendMessage that writes the Cc line whatever cc is
sendMessageAlwaysCc(to, cc, bcc, subject, body) ==
    <<84, 111, 58, 32>> \o to \o <<13, 10>>
    \o <<67, 99, 58, 32>> \o cc \o <<13, 10>>
    \o (IF bcc # <<>> THEN <<66, 99, 99, 58, 32>> \o bcc \o <<13, 10>> ELSE <<>>)
    \o <<83, 117, 98, 106, 101, 99, 116, 58, 32>> \o subject \o <<13, 10>>
    \o <<13, 10>>
    \o body

\* lines 589-601: the message built in the strings.Builder; "To: ", "Cc: ",
\* "Bcc: " and "Subject: " as bytes, 13 10 for "\r\n"
sendMessage(to, cc, bcc, subject, body) ==
    <<84, 111, 58, 32>> \o to \o <<13, 10>>
    \o (IF cc # <<>> THEN <<67, 99, 58, 32>> \o cc \o <<13, 10>> ELSE <<>>)
    \o (IF bcc # <<>> THEN <<66, 99, 99, 58, 32>> \o bcc \o <<13, 10>> ELSE <<>>)
    \o <<83, 117, 98, 106, 101, 99, 116, 58, 32>> \o subject \o <<13, 10>>
    \o <<13, 10>>
    \o body

\* runSend: the message is built and encoded, sent in one request with the
\* encoding as Raw, then the status text on standard error
RunSend ==
    /\ cpc = "run"
    /\ cmd = "send"
    /\ \E ok \in BOOLEAN :
          /\ calls' = Append(calls,
                 Call(Request(cmd),
                      EncodeToString(sendMessage(args.to, args.cc, args.bcc, args.subject,
                                                 args.body)),
                      ok))
          /\ cerr' = IF ok THEN "" ELSE "request"
          /\ out' = IF ok THEN Append(out, Out("stderr", "status", <<cmd>>)) ELSE out
    /\ cpc' = "return"
    /\ UNCHANGED <<authVars, hx, bx, cmd, args, work, exitCode>>

\* the lists of distinct message IDs of length at most MaxMsgs
MsgLists ==
    {q \in SeqsUpTo(1..MaxMsgs, MaxMsgs) : \A i, j \in 1..Len(q) : q[i] = q[j] => i = j}

\* runList, runSearch: the list request; search prints the number found on
\* standard error; then listMessagesWithDetails(service, response.Messages)
RunList ==
    /\ cpc = "run"
    /\ cmd \in {"list", "search"}
    /\ \/ /\ calls' = Append(calls, Call(Request(cmd), <<>>, FALSE))
          /\ cerr' = "request"
          /\ cpc' = "return"
          /\ UNCHANGED <<work, out>>
       \/ /\ calls' = Append(calls, Call(Request(cmd), <<>>, TRUE))
          /\ \E ms \in MsgLists :
                /\ work' = [work EXCEPT !.msgs = ms]
                /\ out' = IF cmd = "search"
                          THEN Append(out, Out("stderr", "found", <<Len(ms)>>))
                          ELSE out
          /\ cpc' = "fanout"
          /\ UNCHANGED cerr
    /\ UNCHANGED <<authVars, hx, bx, cmd, args, exitCode>>

\* a variant of ListFetch in which a failed fetch ends the loop with the
\* error
ListFetchAbort ==
    /\ cpc = "fanout"
    /\ work.i < Len(work.msgs)
    /\ LET id == work.msgs[work.i + 1]
       IN  \/ /\ calls' = Append(calls, Call("Messages.Get", <<id>>, FALSE))
              /\ out' = Append(out, Out("stderr", "warning", <<id>>))
              /\ cerr' = "request"
              /\ cpc' = "return"
           \/ /\ calls' = Append(calls, Call("Messages.Get", <<id>>, TRUE))
              /\ \E hs \in MsgHeaders :
                    out' = Append(out, Out("stdout", "entry",
                               <<id, extractHeaders(hs).from, extractHeaders(hs).subject>>))
              /\ UNCHANGED <<cerr, cpc>>
    /\ work' = [work EXCEPT !.i = work.i + 1]
    /\ UNCHANGED <<authVars, hx, bx, cmd, args, exitCode>>

\* listMessagesWithDetails, lines 673-684, one turn of the loop: the message
\* is fetched; on failure a warning goes to standard error and the loop
\* continues, else ID, From, Subject and a rule go to standard output
ListFetch ==
    /\ cpc = "fanout"
    /\ work.i < Len(work.msgs)
    /\ LET id == work.msgs[work.i + 1]
       IN  \/ /\ calls' = Append(calls, Call("Messages.Get", <<id>>, FALSE))
              /\ out' = Append(out, Out("stderr", "warning", <<id>>))
           \/ /\ calls' = Append(calls, Call("Messages.Get", <<id>>, TRUE))
              /\ \E hs \in MsgHeaders :
                    out' = Append(out, Out("stdout", "entry",
                               <<id, extractHeaders(hs).from, extractHeaders(hs).subject>>))
    /\ work' = [work EXCEPT !.i = work.i + 1]
    /\ UNCHANGED <<authVars, hx, bx, cmd, args, cerr, cpc, exitCode>>

\* line 686: the loop is over, listMessagesWithDetails returns nil
ListDone ==
    /\ cpc = "fanout"
    /\ work.i = Len(work.msgs)
    /\ cerr' = ""
    /\ cpc' = "return"
    /\ UNCHANGED <<authVars, hx, bx, cmd, args, calls, work, exitCode, out>>

(***************************************************************************)
(* runDownloadAttachments, auth.go 434-477, and processAttachments,        *)
(* auth.go 689-728.  A part is named by its path from the payload: the     *)
(* indices of the sub-parts to follow.  The recursion is kept as the list  *)
(* of the parts still to visit, the next one first; visited lists the      *)
(* parts processAttachments has been called on.                            *)
(***************************************************************************)
\* named or unnamed parts whose body has or lacks an attachment ID
AttLabels ==
    [mimeType : {"application/pdf"}, filename : {"", "f"},
     body : {Body(<<>>, ""), Body(<<>>, "att")}]

\* what the service returns as attachment.Data: "Hi" encoded, with and
\* without its padding
AttachmentData == {EncodeToString(<<72, 105>>), SubSeq(EncodeToString(<<72, 105>>), 1, 3)}

RECURSIVE PartAt(_, _)
PartAt(part, path) ==
    IF path = <<>> THEN part ELSE PartAt(part.parts[Head(path)], Tail(path))

\* the paths of the sub-parts of the part at path, in document order
SubParts(part, path) == [k \in 1..Len(PartAt(part, path).parts) |-> Append(path, k)]

\* lines 444-447: the message is fetched
DownloadGet ==
    /\ cpc = "run"
    /\ cmd = "download"
    /\ \/ /\ calls' = Append(calls, Call(Request(cmd), <<1>>, FALSE))
          /\ cerr' = "request"
          /\ cpc' = "return"
          /\ UNCHANGED work
       \/ /\ calls' = Append(calls, Call(Request(cmd), <<1>>, TRUE))
          /\ \E p \in PartsUpTo(AttLabels, MaxParts) : work' = [work EXCEPT !.payload = p]
          /\ cpc' = "mkdir"
          /\ UNCHANGED cerr
    /\ UNCHANGED <<authVars, hx, bx, cmd, args, exitCode, out>>

\* lines 450-463: the directory is resolved (os.UserHomeDir for a leading
\* "~/") and created with os.MkdirAll; then processAttachments is called on
\* the payload with the counter at 0
DownloadMkdir ==
    /\ cpc = "mkdir"
    /\ \/ /\ cerr' = "home"
          /\ cpc' = "return"
          /\ UNCHANGED work
       \/ /\ cerr' = "mkdir"
          /\ cpc' = "return"
          /\ UNCHANGED work
       \/ /\ work' = [work EXCEPT !.walking = TRUE, !.stack = << <<>> >>, !.count = 0]
          /\ cpc' = "walk"
          /\ UNCHANGED cerr
    /\ UNCHANGED <<authVars, hx, bx, cmd, args, calls, exitCode, out>>

\* a variant of Qualifies that asks for the file name only
QualifiesByName(part) == part.filename # ""

\* lines 690-693: the part is downloaded if it has a file name, a body and
\* an attachment ID
Qualifies(part) == part.filename # "" /\ ~part.body.nil /\ part.body.attachmentId # ""

\* a variant of DownloadVisit that goes on to the next part after a failed
\* fetch
DownloadVisitContinue ==
    /\ cpc = "walk"
    /\ work.stack # <<>>
    /\ LET p == Head(work.stack)
           part == PartAt(work.payload, p)
           next == SubParts(work.payload, p) \o Tail(work.stack)
           notice == Out("stderr", "downloading", p)
       IN  IF ~Qualifies(part)
           THEN /\ work' = [work EXCEPT !.stack = next, !.visited = Append(work.visited, p)]
                /\ UNCHANGED <<calls, cerr, cpc, out>>
           ELSE \/ /\ calls' = Append(calls, Call("Attachments.Get", p, FALSE))
                   /\ out' = Append(out, notice)
                   /\ cerr' = "request"
                   /\ UNCHANGED cpc
                   /\ work' = [work EXCEPT !.stack = next, !.visited = Append(work.visited, p)]
                \/ /\ calls' = Append(calls, Call("Attachments.Get", p, TRUE))
                   /\ \E d \in AttachmentData :
                         IF DecodeString(d).err
                         THEN /\ out' = Append(out, notice)
                              /\ cerr' = "decode"
                              /\ cpc' = "return"
                              /\ work' = [work EXCEPT !.visited = Append(work.visited, p)]
                         ELSE \/ /\ out' = Append(out, notice)
                                 /\ cerr' = "write"
                                 /\ cpc' = "return"
                                 /\ work' = [work EXCEPT !.visited = Append(work.visited, p)]
                              \/ /\ out' = out \o <<notice, Out("stderr", "saved", p)>>
                                 /\ work' = [work EXCEPT
                                        !.stack = next,
                                        !.visited = Append(work.visited, p),
                                        !.count = work.count + 1,
                                        !.writes = Append(work.writes,
                                            [path |-> p, data |-> DecodeString(d).data])]
                                 /\ UNCHANGED <<cerr, cpc>>
    /\ UNCHANGED <<authVars, hx, bx, cmd, args, exitCode>>

\* processAttachments on the next part: lines 690-718 for the part itself
\* (notice, fetch, decode, os.WriteFile, notice, counter), any error
\* returned through every level; lines 721-725 put its sub-parts next
DownloadVisit ==
    /\ cpc = "walk"
    /\ work.stack # <<>>
    /\ LET p == Head(work.stack)
           part == PartAt(work.payload, p)
           next == SubParts(work.payload, p) \o Tail(work.stack)
           notice == Out("stderr", "downloading", p)
       IN  IF ~Qualifies(part)
           THEN /\ work' = [work EXCEPT !.stack = next, !.visited = Append(work.visited, p)]
                /\ UNCHANGED <<calls, cerr, cpc, out>>
           ELSE \/ /\ calls' = Append(calls, Call("Attachments.Get", p, FALSE))
                   /\ out' = Append(out, notice)
                   /\ cerr' = "request"
                   /\ cpc' = "return"
                   /\ work' = [work EXCEPT !.visited = Append(work.visited, p)]
                \/ /\ calls' = Append(calls, Call("Attachments.Get", p, TRUE))
                   /\ \E d \in AttachmentData :
                         IF DecodeString(d).err
                         THEN /\ out' = Append(out, notice)
                              /\ cerr' = "decode"
                              /\ cpc' = "return"
                              /\ work' = [work EXCEPT !.visited = Append(work.visited, p)]
                         ELSE \/ /\ out' = Append(out, notice)
                                 /\ cerr' = "write"
                                 /\ cpc' = "return"
                                 /\ work' = [work EXCEPT !.visited = Append(work.visited, p)]
                              \/ /\ out' = out \o <<notice, Out("stderr", "saved", p)>>
                                 /\ work' = [work EXCEPT
                                        !.stack = next,
                                        !.visited = Append(work.visited, p),
                                        !.count = work.count + 1,
                                        !.writes = Append(work.writes,
                                            [path |-> p, data |-> DecodeString(d).data])]
                                 /\ UNCHANGED <<cerr, cpc>>
    /\ UNCHANGED <<authVars, hx, bx, cmd, args, exitCode>>

\* a variant of DownloadDone that reports the count whatever it is
DownloadDoneCount ==
    /\ cpc = "walk"
    /\ work.stack = <<>>
    /\ out' = Append(out, Out("stderr", "downloaded", <<work.count>>))
    /\ cerr' = ""
    /\ cpc' = "return"
    /\ UNCHANGED <<authVars, hx, bx, cmd, args, calls, work, exitCode>>

\* lines 470-476: processAttachments returned nil; the count is reported
DownloadDone ==
    /\ cpc = "walk"
    /\ work.stack = <<>>
    /\ out' = Append(out, IF work.count = 0
                          THEN Out("stderr", "noAttachments", <<>>)
                          ELSE Out("stderr", "downloaded", <<work.count>>))
    /\ cerr' = ""
    /\ cpc' = "return"
    /\ UNCHANGED <<authVars, hx, bx, cmd, args, calls, work, exitCode>>

\* a variant of MainExit that exits with status 0 whatever Execute returned
MainExitZero ==
    /\ cpc = "return"
    /\ exitCode' = 0
    /\ out' = IF cerr # "" THEN Append(out, Out("stderr", "error", <<cerr>>)) ELSE out
    /\ cpc' = "exited"
    /\ UNCHANGED <<authVars, hx, bx, cmd, args, calls, work, cerr>>

\* main.go 36-39: the handler has returned; an error is printed to standard
\* error and the process exits with status 1, else main returns
MainExit ==
    /\ cpc = "return"
    /\ exitCode' = IF cerr # "" THEN 1 ELSE 0
    /\ out' = IF cerr # "" THEN Append(out, Out("stderr", "error", <<cerr>>)) ELSE out
    /\ cpc' = "exited"
    /\ UNCHANGED <<authVars, hx, bx, cmd, args, calls, work, cerr>>

CmdNext ==
    \/ CmdService
    \/ RunModify
    \/ RunListLabels
    \/ RunGet
    \/ RunSend
    \/ RunList
    \/ ListFetch
    \/ ListDone
    \/ DownloadGet
    \/ DownloadMkdir
    \/ DownloadVisit
    \/ DownloadDone
    \/ MainExit

CmdSpec == CmdInit /\ [][CmdNext]_vars

(***************************************************************************)
(* Properties.                                                             *)
(***************************************************************************)
\* the handler goroutines blocked in a channel send
Blocked == {i \in 1..MaxCallbacks : h[i].pc \in {"sendCode", "sendErr"}}

\* C1: a callback whose state parameter differs from the state value of the
\* authorization URL never leads to a token exchange: once the select has
\* received from such a callback, config.Exchange is not called and the
\* flow does not return a token.
C1_StateMismatchFails ==
    (got # NoRequest /\ got.state # StateToken) =>
        /\ ~exchanged
        /\ flowResult # "token"

\* C2: whenever getTokenFromWeb has returned after the listener goroutine
\* was started, the listener no longer accepts connections.
C2_ListenerDownOnReturn ==
    (flowResult # "none" /\ srv # "none") => ~listening

\* C3: after a callback delivered a non-empty code, the listener is shut
\* down (Shutdown has returned, with nil or with the deadline error) before
\* the exchange starts; the flow then returns the exchanged token or the
\* exchange error, and in both outcomes the listener is stopped.
C3_ShutdownBeforeExchange ==
    /\ (pc = "exchange" \/ exchanged) =>
           /\ waitEnd = "code"
           /\ got.code # ""
           /\ shutdownCalled
           /\ shutdownErr \in {"nil", "deadline"}
           /\ ~listening
           /\ srv = "closed"
    /\ (waitEnd = "code" /\ flowResult # "none") =>
           /\ exchanged
           /\ flowResult \in {"token", "errExchange"}
           /\ ~listening
    /\ (flowResult = "token") <=> (memToken # NoToken)
    /\ (flowResult = "token") => memToken \in ExchangeTokens

\* C3 witness: the flow returned a token after a code callback, with the
\* listener shut down while another handler was still running
C3_Witness ==
    /\ waitEnd = "code"
    /\ flowResult = "token"
    /\ shutdownErr = "deadline"
    /\ ~listening

\* C4: the hand-off is single-use: once the select has received its one
\* value, no callback handler is left blocked in a channel send (a later
\* callback is dropped and its handler returns).
C4_LaterCallbackDropped ==
    (waitEnd \in {"code", "err"}) => Blocked = {}

\* what the wait's end looks like: the flow is past the select exactly when
\* one of the three cases was taken, and a flow that returned with no
\* callback accepted and a listener that did bind returned the timeout
C5_Outcome ==
    /\ (pc \notin {"flowStart", "sleep", "emit", "wait"}) <=>
           (waitEnd \in {"code", "err", "timeout"})
    /\ (waitEnd = "timeout") <=> (flowResult = "errTimeout")
    /\ (flowResult # "none" /\ arrived = 0 /\ srv \notin {"sendErr", "exited"}) =>
           flowResult = "errTimeout"

C6_ErrorCallbackFails ==
    (got # NoRequest /\ (got.error # "" \/ got.code = "")) =>
        /\ ~exchanged
        /\ flowResult # "token"

\* C7: getClient runs the flow only when loading the token file failed.  An
\* invocation whose load succeeded starts no listener, prints no URL, starts
\* no browser and does not open the token file for writing; and an
\* invocation that finds the file as a successful saveToken left it loads
\* it, and builds its client from the saved token.
C7_FlowOnlyOnLoadFailure ==
    /\ (loadResult = "ok") =>
           /\ pc = "returned"
           /\ clientResult = "client"
           /\ srv = "none"
           /\ ~listening
           /\ ~urlEmitted
           /\ ~browser
           /\ ~fileWritten
           /\ saveResult = "none"
    /\ (srv # "none" \/ urlEmitted \/ browser \/ fileWritten) => loadResult = "fail"
    /\ (lastSaved # NoToken /\ ~fileWritten /\ loadResult # "none") =>
           /\ loadResult = "ok"
           /\ clientToken = lastSaved

\* C7 witness: the second invocation, after the first one authorized and
\* saved, has loaded the token and returned a client
C7_Witness ==
    /\ invocations = 2
    /\ lastSaved # NoToken
    /\ loadResult = "ok"
    /\ clientResult = "client"
    /\ clientToken = lastSaved

\* C8: when the flow returned a token and saveToken failed, getClient
\* returns a client built from the token the flow returned, after printing
\* the warning; the warning is printed for a failed save only.
C8_SaveFailureNotFatal ==
    /\ (pc = "returned" /\ flowResult = "token" /\ saveResult = "error") =>
           /\ clientResult = "client"
           /\ clientToken = memToken
           /\ warned
    /\ warned => saveResult = "error"

\* C8 witness: getClient returned a client although saveToken had failed
C8_Witness ==
    /\ pc = "returned"
    /\ flowResult = "token"
    /\ saveResult = "error"
    /\ clientResult = "client"
    /\ clientToken \in ExchangeTokens

\* C9: after successful saveToken calls the file holds exactly the encoding
\* of the most recently saved token, whatever it held before, and
\* tokenFromFile returns a token equal to it in every field.
C9_RoundTrip ==
    (lastSaved # NoToken) =>
        /\ fileExists
        /\ file = EncodeToken(lastSaved)
        /\ tokenFromFile(fileExists, file) = [err |-> "", tok |-> lastSaved]
        /\ (loaded # NotLoaded) => loaded = [err |-> "", tok |-> lastSaved]

\* C9 witness: a second successful save, of another token, over the file a
\* first successful save left, and tokenFromFile called after it
C9_Witness ==
    /\ saves = 2
    /\ pc = "store"
    /\ lastSaved # NoToken
    /\ savePrev.exists
    /\ DecodeToken(savePrev.content).err = ""
    /\ savePrev.content # EncodeToken(lastSaved)
    /\ Len(savePrev.content) > Len(EncodeToken(lastSaved))
    /\ loaded = [err |-> "", tok |-> lastSaved]

\* C10: a read of the token file by another process while saveToken runs
\* observes the complete previous file or the complete new token, never an
\* empty or cut file.
C10_NoPartialRead ==
    (rdSeen.seen /\ rdSeen.during) =>
        \/ [exists |-> rdSeen.exists, content |-> rdSeen.content] = savePrev
        \/ (rdSeen.exists /\ rdSeen.content = EncodeToken(saveTok))

\* the texts that report progress or problems rather than the data a
\* command was asked for
Diagnostics == {"browserNotice", "authURL", "authSuccess", "savingCredentials",
                "saveWarning", "warning", "found", "downloading", "saved",
                "noAttachments", "downloaded", "status", "error"}

\* C18: every diagnostic or status text, the ones of the authorization flow
\* (browser notice, URL, authentication success) included, is written to
\* standard error
C18_DiagnosticsOnStderr ==
    \A i \in 1..Len(out) : out[i].kind \in Diagnostics => out[i].stream = "stderr"

\* C19: once the URL has been printed and the browser started, the listener
\* has been bound
C19_BoundBeforeURL ==
    urlEmitted => srv \in {"serving", "closed"}

\* C20: a handler that hands the code to the flow, or has handed it, has
\* written the confirmation page before
C20_PageBeforeCode ==
    /\ \A i \in 1..MaxCallbacks : h[i].pc = "sendCode" => h[i].page
    /\ waitEnd = "code" => \E i \in 1..MaxCallbacks : h[i].pc = "done" /\ h[i].page

\* the flow has received the code from a handler
C20_Witness ==
    /\ waitEnd = "code"
    /\ got.code # ""
    /\ \E i \in 1..MaxCallbacks : h[i].pc = "done" /\ h[i].page

\* the value of the last header of the list named exactly n, "" with none
LastNamed(headers, n) ==
    LET at == {i \in 1..Len(headers) : headers[i].name = n}
    IN  IF at = {} THEN ""
        ELSE headers[CHOOSE i \in at : \A j \in at : j <= i].value

\* C11: extractHeaders returns the value of the last header named exactly
\* "Subject" and of the last named exactly "From", each "" when the list
\* has no such header; headers of other names, differing in case only
\* included, do not count
C11_LastHeaderWins ==
    hx.pc = "returned" =>
        /\ hx.subject = LastNamed(hx.headers, "Subject")
        /\ hx.from = LastNamed(hx.headers, "From")

\* two Subject headers of different values, then one spelled "subject"
C11_Witness ==
    /\ hx.pc = "returned"
    /\ Len(hx.headers) = 3
    /\ hx.headers[1].name = "Subject"
    /\ hx.headers[2].name = "Subject"
    /\ hx.headers[3].name = "subject"
    /\ hx.headers[1].value = "a"
    /\ hx.headers[2].value = "b"
    /\ hx.headers[3].value = "a"
    /\ hx.subject = "b"
    /\ hx.from = ""

\* the part holds a non-empty payload that base64url-decodes
Decodable(p) == ~p.body.nil /\ p.body.data # <<>> /\ ~DecodeString(p.body.data).err

\* the immediate sub-parts of p with such a payload
DecodableChildren(p) == {i \in 1..Len(p.parts) : Decodable(p.parts[i])}

\* the decoded payloads of the part itself and of its text/plain sub-parts
PlainPayloads(p) ==
    {DecodeString(q.body.data).data :
        q \in {r \in {p} \cup {p.parts[i] : i \in DecodableChildren(p)} :
                  Decodable(r) /\ (r = p \/ r.mimeType = "text/plain")}}

\* C12 as stated: the sentinel is returned exactly when neither the part
\* nor any immediate sub-part has a decodable payload
C12_SentinelIffNoPayload ==
    bx.pc = "returned" =>
        (bx.result = NoTextContent
            <=> ~Decodable(bx.part) /\ DecodableChildren(bx.part) = {})

\* C12: the sentinel is returned when neither the part nor any immediate
\* text/plain sub-part has a decodable payload, and else one of those
\* decoded payloads is; payloads of sub-parts of other types and of
\* sub-parts of sub-parts are never returned
C12_SentinelIffNoPlainPayload ==
    bx.pc = "returned" =>
        IF PlainPayloads(bx.part) = {}
        THEN bx.result = NoTextContent
        ELSE bx.result \in PlainPayloads(bx.part)

\* no payload in the part, "Hi" in its text/html sub-part, "A" in the
\* text/plain sub-part of that one: the sentinel is returned
C12_Witness ==
    /\ bx.pc = "returned"
    /\ bx.part.body.data = <<>>
    /\ Len(bx.part.parts) = 1
    /\ bx.part.parts[1].mimeType = "text/html"
    /\ bx.part.parts[1].body = Body(EncodeToString(<<72, 105>>), "")
    /\ Len(bx.part.parts[1].parts) = 1
    /\ bx.part.parts[1].parts[1].mimeType = "text/plain"
    /\ bx.part.parts[1].parts[1].body = Body(EncodeToString(<<65>>), "")
    /\ bx.result = NoTextContent

\* the paths of a part and of all the parts below it, depth-first, the
\* sub-parts in document order
RECURSIVE Preorder(_, _), PreorderFrom(_, _, _)
Preorder(part, path) == <<path>> \o PreorderFrom(part, path, 1)

PreorderFrom(part, path, k) ==
    IF k > Len(part.parts) THEN <<>>
    ELSE Preorder(part.parts[k], Append(path, k)) \o PreorderFrom(part, path, k + 1)

\* the parts of the payload with a file name and an attachment ID, in that
\* order
QualifyingPaths(payload) ==
    SelectSeq(Preorder(payload, <<>>),
              LAMBDA q : PartAt(payload, q).filename # ""
                         /\ PartAt(payload, q).body.attachmentId # "")

\* the parts whose attachment has been requested, in the order of the requests
Fetched ==
    LET gets == SelectSeq(calls, LAMBDA c : c.op = "Attachments.Get")
    IN  [k \in 1..Len(gets) |-> gets[k].target]

IsPrefix(s, t) == Len(s) <= Len(t) /\ s = SubSeq(t, 1, Len(s))

\* C13 as stated: whatever happens, the traversal has visited every part
\* and downloaded every part with a file name and an attachment ID when
\* the command ends
C13_AllQualifyingDownloaded ==
    cmd = "download" /\ work.walking /\ cpc = "exited" =>
        /\ work.visited = Preorder(work.payload, <<>>)
        /\ Fetched = QualifyingPaths(work.payload)
        /\ work.count = Len(QualifyingPaths(work.payload))

\* C13: the parts are visited depth-first in document order and the parts
\* fetched are the ones with a file name and an attachment ID, in that
\* order, each once; when no fetch, decode or write has failed every part
\* has been visited, every such part downloaded and the count is their
\* number
C13_QualifyingInOrder ==
    cmd = "download" /\ work.walking =>
        /\ IsPrefix(work.visited, Preorder(work.payload, <<>>))
        /\ IsPrefix(Fetched, QualifyingPaths(work.payload))
        /\ Fetched = SelectSeq(work.visited,
                               LAMBDA q : PartAt(work.payload, q).filename # ""
                                          /\ PartAt(work.payload, q).body.attachmentId # "")
        /\ cpc \in {"return", "exited"} /\ cerr = "" =>
              /\ work.visited = Preorder(work.payload, <<>>)
              /\ Fetched = QualifyingPaths(work.payload)
              /\ [k \in 1..Len(work.writes) |-> work.writes[k].path]
                     = QualifyingPaths(work.payload)
              /\ work.count = Len(QualifyingPaths(work.payload))

\* four parts: an unnamed payload, its first sub-part named but without
\* attachment ID, below that one an attachment, and a second sub-part that
\* is an attachment; both were downloaded, the deeper one first
C13_Witness ==
    /\ cmd = "download"
    /\ cpc = "exited"
    /\ cerr = ""
    /\ work.visited = << <<>>, <<1>>, <<1, 1>>, <<2>> >>
    /\ PartAt(work.payload, <<1>>).filename = "f"
    /\ PartAt(work.payload, <<1>>).body.attachmentId = ""
    /\ Fetched = << <<1, 1>>, <<2>> >>
    /\ work.count = 2

\* download-attachments has fetched the message
MsgRetrieved == cmd = "download" /\ Len(calls) >= 1 /\ calls[1].ok

\* the kinds of the texts printed so far
Printed == {out[k].kind : k \in 1..Len(out)}

\* C14 as stated: whenever the message has no part with a file name and an
\* attachment ID the command fetches and writes nothing, reports "No
\* attachments found" and ends with status 0
C14_NoAttachmentsSucceeds ==
    MsgRetrieved /\ cpc = "exited" /\ QualifyingPaths(work.payload) = <<>> =>
        /\ Fetched = <<>>
        /\ work.writes = <<>>
        /\ "noAttachments" \in Printed
        /\ exitCode = 0

\* C14: when the message has no part with a file name and an attachment ID
\* the command fetches no attachment and writes no file; and when the
\* download directory could be resolved and created it reports "No
\* attachments found" on standard error and ends with status 0
C14_NoAttachmentsReported ==
    MsgRetrieved /\ QualifyingPaths(work.payload) = <<>> =>
        /\ Fetched = <<>>
        /\ work.writes = <<>>
        /\ "saved" \notin Printed /\ "downloaded" \notin Printed
        /\ cpc = "exited" /\ work.walking =>
              /\ out[Len(out)] = Out("stderr", "noAttachments", <<>>)
              /\ cerr = ""
              /\ exitCode = 0
        /\ cpc = "exited" /\ ~work.walking => cerr \in {"home", "mkdir"} /\ exitCode = 1

\* a message of a named part without attachment ID and an unnamed part
\* with one: nothing fetched, "No attachments found", status 0
C14_Witness ==
    /\ MsgRetrieved
    /\ cpc = "exited"
    /\ work.walking
    /\ Len(work.visited) = 3
    /\ \E q \in {<<>>, <<1>>, <<2>>, <<1, 1>>} :
          /\ \E k \in 1..Len(work.visited) : work.visited[k] = q
          /\ PartAt(work.payload, q).filename = "f"
    /\ \E q \in {<<>>, <<1>>, <<2>>, <<1, 1>>} :
          /\ \E k \in 1..Len(work.visited) : work.visited[k] = q
          /\ PartAt(work.payload, q).body.attachmentId = "att"
    /\ Fetched = <<>>
    /\ work.writes = <<>>
    /\ out = <<Out("stderr", "noAttachments", <<>>)>>
    /\ exitCode = 0

\* the detail fetches of list and search so far
Fanout == SubSeq(calls, 2, Len(calls))

\* C15: after the list request of list or search has succeeded, the
\* messages are fetched one by one in the order of the response, whether
\* earlier fetches failed or not; the entries on standard output are the
\* fetched messages and the warnings on standard error the failed ones,
\* both in that order; the loop ends after the last message with no error,
\* and the command with status 0
C15_FanOutTolerant ==
    cmd \in {"list", "search"} /\ Len(calls) >= 1 /\ calls[1].ok =>
        /\ cerr = ""
        /\ Len(Fanout) = work.i
        /\ \A k \in 1..Len(Fanout) :
              Fanout[k].op = "Messages.Get" /\ Fanout[k].target = <<work.msgs[k]>>
        /\ LET entries == SelectSeq(out, LAMBDA o : o.kind = "entry")
               fetched == SelectSeq(Fanout, LAMBDA c : c.ok)
           IN  /\ Len(entries) = Len(fetched)
               /\ \A k \in 1..Len(entries) :
                     entries[k].stream = "stdout" /\ <<entries[k].data[1]>> = fetched[k].target
        /\ LET warnings == SelectSeq(out, LAMBDA o : o.kind = "warning")
               failed == SelectSeq(Fanout, LAMBDA c : ~c.ok)
           IN  /\ Len(warnings) = Len(failed)
               /\ \A k \in 1..Len(warnings) :
                     warnings[k].stream = "stderr" /\ warnings[k].data = failed[k].target
        /\ cpc \in {"return", "exited"} => work.i = Len(work.msgs)
        /\ cpc = "exited" => exitCode = 0

\* three messages, the first and the third fetched and printed, the second
\* failed; status 0
C15_Witness ==
    /\ cmd \in {"list", "search"}
    /\ cpc = "exited"
    /\ Len(work.msgs) = 3
    /\ Len(Fanout) = 3
    /\ Fanout[1].ok /\ ~Fanout[2].ok /\ Fanout[3].ok
    /\ exitCode = 0

\* the lines, each followed by CR LF
RECURSIVE EndLines(_)
EndLines(lines) ==
    IF lines = <<>> THEN <<>> ELSE Head(lines) \o <<13, 10>> \o EndLines(Tail(lines))

\* the header lines of the message of send, and the empty line
SendLines(f) ==
    << <<84, 111, 58, 32>> \o f.to >>
    \o (IF f.cc = <<>> THEN <<>> ELSE << <<67, 99, 58, 32>> \o f.cc >>)
    \o (IF f.bcc = <<>> THEN <<>> ELSE << <<66, 99, 99, 58, 32>> \o f.bcc >>)
    \o << <<83, 117, 98, 106, 101, 99, 116, 58, 32>> \o f.subject, <<>> >>

\* --to a@x.com --subject Hi --body Hello
SpecFlags ==
    [to |-> <<97, 64, 120, 46, 99, 111, 109>>, cc |-> <<>>, bcc |-> <<>>,
     subject |-> <<72, 105>>, body |-> <<72, 101, 108, 108, 111>>]

\* "To: a@x.com\r\nSubject: Hi\r\n\r\nHello"
SpecContent ==
    <<84, 111, 58, 32, 97, 64, 120, 46, 99, 111, 109, 13, 10,
      83, 117, 98, 106, 101, 99, 116, 58, 32, 72, 105, 13, 10,
      13, 10,
      72, 101, 108, 108, 111>>

InFanout(k) == cmd \in {"list", "search"} /\ calls[k].op = "Messages.Get"

\* C17: no request is sent twice; a failed request other than a detail
\* fetch of list or search is the last one, and the handler returns an
\* error after it; the process exits with status 0 if the handler returned
\* no error and with status 1 if it returned one
C17_NoRetry ==
    /\ \A i, j \in 1..Len(calls) :
          calls[i].op = calls[j].op /\ calls[i].target = calls[j].target => i = j
    /\ \A k \in 1..Len(calls) :
          ~calls[k].ok /\ ~InFanout(k) =>
              /\ k = Len(calls)
              /\ cpc \in {"return", "exited"}
              /\ cerr # ""
              /\ cpc = "exited" => exitCode = 1
    /\ cpc = "exited" => exitCode = (IF cerr = "" THEN 0 ELSE 1)

\* download-attachments after the message and a first attachment were
\* fetched and the fetch of a second one failed: no request after it,
\* status 1
C17_Witness ==
    /\ cmd = "download"
    /\ cpc = "exited"
    /\ Len(calls) = 3
    /\ calls[1].ok /\ calls[2].ok /\ ~calls[3].ok
    /\ cerr = "request"
    /\ exitCode = 1

\* the immediate text/plain sub-parts of p with a payload that decodes
PlainChildren(p) == {i \in DecodableChildren(p) : p.parts[i].mimeType = "text/plain"}

\* C21: getBody returns the decoded payload of the part itself when it has
\* one that decodes; otherwise the decoded payload of the first immediate
\* text/plain sub-part, in document order, whose payload decodes; a payload
\* that does not decode counts as absent
C21_Precedence ==
    bx.pc = "returned" =>
        /\ Decodable(bx.part) => bx.result = DecodeString(bx.part.body.data).data
        /\ ~Decodable(bx.part) /\ PlainChildren(bx.part) # {} =>
              LET first == CHOOSE i \in PlainChildren(bx.part) :
                               \A j \in PlainChildren(bx.part) : i <= j
              IN  bx.result = DecodeString(bx.part.parts[first].body.data).data

\* the payload of the part and of its first text/plain sub-part do not
\* decode, the one of its second text/plain sub-part is "A": "A" is returned
C21_Witness ==
    /\ bx.pc = "returned"
    /\ bx.part.body = Body(SubSeq(EncodeToString(<<72, 105>>), 1, 3), "")
    /\ Len(bx.part.parts) = 2
    /\ bx.part.parts[1].mimeType = "text/plain"
    /\ bx.part.parts[1].body = Body(SubSeq(EncodeToString(<<72, 105>>), 1, 3), "")
    /\ bx.part.parts[2].mimeType = "text/plain"
    /\ bx.part.parts[2].body = Body(EncodeToString(<<65>>), "")
    /\ bx.result = <<65>>

FlowFailed == flowResult \in {"errNoCode", "errListen", "errTimeout", "errExchange"}

\* C23: when tokenFromFile failed and getTokenFromWeb failed, saveToken is
\* not called, the token file is as it was when the command started and no
\* request has been sent; getClient returns an error and no client, and the
\* process exits with status 1
C23_FlowFailureFails ==
    loadResult = "fail" /\ FlowFailed =>
        /\ saveTok = NoToken
        /\ saveResult = "none"
        /\ ~fileWritten
        /\ "savingCredentials" \notin Printed
        /\ [exists |-> fileExists, content |-> file] = startFile
        /\ calls = <<>>
        /\ pc \in {"flowDone", "returned"}
        /\ pc = "returned" => clientResult = "error" /\ clientToken = NoToken
        /\ cpc = "exited" => cerr = "service" /\ exitCode = 1

\* the command found a token file cut short, the exchange of the code
\* failed, and the process has exited with status 1, the file still cut short
C23_Witness ==
    /\ loadResult = "fail"
    /\ flowResult = "errExchange"
    /\ startFile.exists
    /\ Len(startFile.content) = 2
    /\ file = startFile.content
    /\ pc = "returned"
    /\ cpc = "exited"
    /\ calls = <<>>
    /\ exitCode = 1

\* C24: no goroutine of the flow stays blocked in a channel send: every
\* handler invocation that was started returns, and a listener goroutine
\* that goes to send its error gets rid of it.
C24_NoGoroutineBlockedForever ==
    /\ \A i \in 1..MaxCallbacks : (h[i].pc # "unused") ~> (h[i].pc = "done")
    /\ (srv = "sendErr") ~> (srv = "exited")

\* the listener could not start: ListenAndServe returned an error other
\* than ErrServerClosed and the listener goroutine is sending it on
\* errChan, or has handed it over
ListenFailed == srv \in {"sendErr", "exited"}

\* C25: when the listener cannot start, the flow fails with the listener's
\* error: it never takes the timeout case, never receives a code and never
\* attempts the token exchange, its only result is the listener error, and
\* the error is received: the flow does return with it.
C25_ListenFailureFailsFlow ==
    /\ [](ListenFailed =>
             /\ ~exchanged
             /\ arrived = 0
             /\ waitEnd \in {"none", "err"}
             /\ flowResult \in {"none", "errListen"})
    /\ (srv = "sendErr") ~> (pc = "flowDone" /\ flowResult = "errListen")

\* C25 witness: the bind failed and the flow returned the listener's error
\* from the select, with no exchange
C25_Witness ==
    /\ srv = "exited"
    /\ pc = "flowDone"
    /\ waitEnd = "err"
    /\ flowResult = "errListen"
    /\ ~exchanged

====
